---- MODULE Spec2Model ----
(***************************************************************************)
(* Model of firmware/plotter.py: a producer thread (read_serial) that      *)
(* reads lines from a serial port, parses "Pred:<num>,True:<num>" and      *)
(* appends to three bounded deques, and the main thread, which runs the    *)
(* animation callback (update) periodically while the plot window is open  *)
(* and then stops and joins the producer.  No lock protects the deques:    *)
(* every access of shared state is one atomic step (one bytecode under the *)
(* interpreter lock) and the two threads interleave between such steps.    *)
(*                                                                         *)
(* Text is a sequence of one-character strings.  A float is the decimal    *)
(* <<m, e>> standing for m / 10^e, normalised (m is not a multiple of 10   *)
(* unless e = 0), so that equal numbers have equal representations.        *)
(***************************************************************************)
EXTENDS Integers, Sequences, FiniteSets, TLC

\* ------------------------------------------------------------- bounds
\* Window width.  The script sets 200; the model runs the same code with a
\* narrow window so that eviction happens within a few appends.
MAX_POINTS == 2

\* Samples appended before the port delivers no further matching line.
MaxAppends == 3

\* Lines whose history SpecRec keeps.
MaxReads == 4

\* ------------------------------------------------------------- text
Digits == {"0", "1", "2", "3", "4", "5", "6", "7", "8", "9"}

DigitVal(c) ==
  CASE c = "0" -> 0 [] c = "1" -> 1 [] c = "2" -> 2 [] c = "3" -> 3
    [] c = "4" -> 4 [] c = "5" -> 5 [] c = "6" -> 6 [] c = "7" -> 7
    [] c = "8" -> 8 [] c = "9" -> 9

Signs == {"-", "+"}

Whitespace == {" ", "\t", "\n", "\r"}

\* A byte that is not valid UTF-8 (0xFF), as one token of the raw line.
BadByte == "xFF"

\* bytes.decode('utf-8', errors='ignore'): invalid bytes are dropped.
Decode(raw) == SelectSeq(raw, LAMBDA c : c # BadByte)

RECURSIVE LStrip(_)
LStrip(s) ==
  IF s # <<>> /\ Head(s) \in Whitespace THEN LStrip(Tail(s)) ELSE s

RECURSIVE RStrip(_)
RStrip(s) ==
  IF s # <<>> /\ s[Len(s)] \in Whitespace
    THEN RStrip(SubSeq(s, 1, Len(s) - 1))
    ELSE s

\* str.strip()
Strip(s) == RStrip(LStrip(s))

\* ------------------------------------------------------------- regex
\* The character of s at position i, or "" past the end.
At(s, i) == IF i >= 1 /\ i <= Len(s) THEN s[i] ELSE ""

\* The literal lit occurs in s at position i.
LitAt(s, i, lit) ==
  /\ i + Len(lit) - 1 <= Len(s)
  /\ \A k \in 1..Len(lit) : s[i + k - 1] = lit[k]

\* \d* from position i, greedy: the position after the run of digits.
RECURSIVE DigitsEnd(_, _)
DigitsEnd(s, i) == IF At(s, i) \in Digits THEN DigitsEnd(s, i + 1) ELSE i

\* [-+]? from position i, greedy.
SignEnd(s, i) == IF At(s, i) \in Signs THEN i + 1 ELSE i

\* [-+]?\d*\.\d+ from position i: the position after the match, 0 if none.
Alt1End(s, i) ==
  LET b == DigitsEnd(s, SignEnd(s, i))
  IN  IF At(s, b) = "." /\ At(s, b + 1) \in Digits
        THEN DigitsEnd(s, b + 1)
        ELSE 0

\* [-+]?\d+ from position i: the position after the match, 0 if none.
Alt2End(s, i) ==
  LET a == SignEnd(s, i)
      b == DigitsEnd(s, a)
  IN  IF b > a THEN b ELSE 0

PredLit == <<"P", "r", "e", "d", ":">>

TrueLit == <<",", "T", "r", "u", "e", ":">>

\* The second group at position i: the first alternative that matches.
Num2End(s, i) == IF Alt1End(s, i) # 0 THEN Alt1End(s, i) ELSE Alt2End(s, i)

\* The rest of the pattern after a first group ending before position e.
RestAt(s, e) == e # 0 /\ LitAt(s, e, TrueLit) /\ Num2End(s, e + Len(TrueLit)) # 0

\* The first group at position i: the alternatives in order, each kept only
\* if the rest of the pattern matches after it.
Num1End(s, i) ==
  IF RestAt(s, Alt1End(s, i)) THEN Alt1End(s, i)
  ELSE IF RestAt(s, Alt2End(s, i)) THEN Alt2End(s, i)
  ELSE 0

\* The pattern matches s starting at position i.
MatchAt(s, i) == LitAt(s, i, PredLit) /\ Num1End(s, i + Len(PredLit)) # 0

\* re.search: truthy iff the pattern matches somewhere.
Matches(s) == \E i \in 1..Len(s) : MatchAt(s, i)

\* re.search scans left to right: the start of the leftmost match.
MatchStart(s) == CHOOSE i \in 1..Len(s) : MatchAt(s, i) /\ \A j \in 1..(i - 1) : ~MatchAt(s, j)

\* match.group(1), match.group(2)
Group1(s) ==
  LET b == MatchStart(s) + Len(PredLit)
  IN  SubSeq(s, b, Num1End(s, b) - 1)

Group2(s) ==
  LET b == Num1End(s, MatchStart(s) + Len(PredLit)) + Len(TrueLit)
  IN  SubSeq(s, b, Num2End(s, b) - 1)

\* ------------------------------------------------------------- floats
RECURSIVE DigitsInt(_)
DigitsInt(ds) ==
  IF ds = <<>> THEN 0
  ELSE 10 * DigitsInt(SubSeq(ds, 1, Len(ds) - 1)) + DigitVal(ds[Len(ds)])

RECURSIVE Normal(_, _)
Normal(m, e) ==
  IF e > 0 /\ m % 10 = 0 THEN Normal(m \div 10, e - 1) ELSE <<m, e>>

\* float(text) of a signed decimal literal.
Float(t) ==
  LET a    == SignEnd(t, 1)
      neg  == At(t, 1) = "-"
      body == SubSeq(t, a, Len(t))
      dot  == IF \E k \in 1..Len(body) : body[k] = "."
                THEN CHOOSE k \in 1..Len(body) : body[k] = "."
                ELSE Len(body) + 1
      ip   == SubSeq(body, 1, dot - 1)
      fp   == SubSeq(body, dot + 1, Len(body))
      mag  == DigitsInt(ip \o fp)
  IN  Normal(IF neg THEN 0 - mag ELSE mag, Len(fp))

RECURSIVE Pow10(_)
Pow10(k) == IF k = 0 THEN 1 ELSE 10 * Pow10(k - 1)

\* a - b
FloatSub(a, b) ==
  LET e == IF a[2] > b[2] THEN a[2] ELSE b[2]
  IN  Normal(a[1] * Pow10(e - a[2]) - b[1] * Pow10(e - b[2]), e)

\* abs(a)
FloatAbs(a) == <<IF a[1] < 0 THEN 0 - a[1] ELSE a[1], a[2]>>

\* f"{v:.4f}" of a non-negative v: the number of ten-thousandths shown.
Fmt4(v) ==
  IF v[2] <= 4 THEN v[1] * Pow10(4 - v[2])
  ELSE (v[1] + (Pow10(v[2] - 4) \div 2)) \div Pow10(v[2] - 4)

\* pred_val, true_val of a matching line
PredVal(s) == Float(Group1(s))

\* Mutant: true_val is taken from group 1.
TrueValFromGroup1(s) == Float(Group1(s))

TrueVal(s) == Float(Group2(s))

\* ------------------------------------------------------------- line source
\* Raw lines the port can deliver (bytes up to and including the newline).
LineA == <<"P", "r", "e", "d", ":", "0", ".", "5", "0", ",", "T", "r", "u", "e", ":", "0", ".", "5", "2">>

LineGarbage == <<"g", "a", "r", "b", "a", "g", "e">>

LineB == <<"P", "r", "e", "d", ":", "-", "0", ".", "1", "0", ",", "T", "r", "u", "e", ":", "-", "0", ".", "0", "8">>

\* Leading noise, an explicit sign, no integer part, an invalid byte, a
\* trailing dot and CR LF: decodes to " xPred:+.50,True:0.52." and matches.
LineC == <<" ", "x", "P", "r", "e", "d", ":", "+", ".", "5", BadByte, "0", ",", "T", "r", "u", "e", ":", "0", ".", "5", "2", ".", "\r", "\n">>

\* "1." is no number of the pattern: no match.
LineD == <<"P", "r", "e", "d", ":", "1", ".", ",", "T", "r", "u", "e", ":", "2", "\n">>

Lines == {LineA, LineGarbage, LineB, LineC, LineD}

\* line = raw.decode('utf-8', errors='ignore').strip(), for every raw line.
LineText == [raw \in Lines |-> Strip(Decode(raw))]

\* What the loop body computes from line, for every text readline can yield
\* (the empty text after a timeout included): whether the pattern matches
\* and, if it does, pred_val and true_val.  Evaluated once, looked up by the
\* actions.
Parsed ==
  [s \in {LineText[raw] : raw \in Lines} \cup {<<>>} |->
     IF Matches(s)
       THEN [match |-> TRUE, pred_val |-> PredVal(s), true_val |-> TrueVal(s)]
       ELSE [match |-> FALSE]]

\* ------------------------------------------------------------- state
VARIABLES
  data_pred,    \* deque(maxlen=MAX_POINTS) of predicted values
  data_true,    \* deque(maxlen=MAX_POINTS) of true values
  data_x,       \* deque(maxlen=MAX_POINTS) of sample counters
  running,      \* the global flag
  prod_pc,      \* where the thread running read_serial is
  ser,          \* the local ser: "unbound", "open" or "closed"
  counter,      \* the local counter of read_serial
  line,         \* the local line of read_serial (decoded, stripped)
  stdout,       \* what has been printed
  main_pc,      \* where the main thread is
  tick_pc,      \* where the running call of update is ("idle": none)
  t_len,        \* update: the value of len(data_x) just evaluated
  t_last,       \* update: the value of data_pred[-1] just evaluated
  line_pred,    \* the artist line_pred: its x and y data
  line_true,    \* the artist line_true: its x and y data
  xlim,         \* the x limits of the axes
  error_text,   \* the artist error_text
  lines_read,   \* history: the raw lines readline has returned
  log,          \* history: the samples whose three appends are done
  tick_late,    \* history: the latest call of update began after the
                \* thread running read_serial had ended
  appended_at_stop  \* history: how many samples had been appended when the
                \* main thread assigned running = False (0 before it does)

vars == <<data_pred, data_true, data_x, running, prod_pc, ser, counter, line,
          stdout, main_pc, tick_pc, t_len, t_last, line_pred, line_true, xlim,
          error_text, lines_read, log, tick_late, appended_at_stop>>

buffers == <<data_pred, data_true, data_x>>

prod_vars == <<prod_pc, ser, counter, line, stdout, lines_read, log>>

tick_vars == <<tick_pc, t_len, t_last, line_pred, line_true, xlim, error_text,
               tick_late>>

main_vars == <<main_pc, appended_at_stop>>

\* A local of update that holds no value, and the empty text of error_text;
\* each is of the kind of the values it stands in for.
NoLen == 0 - 1

NoFloat == <<>>

NoText == 0 - 1

\* range(n)
Range(n) == [i \in 1..n |-> i - 1]

\* Mutant: a deque without maxlen.
DequeAppendUnbounded(d, v) == Append(d, v)

\* deque.append on a deque with maxlen=MAX_POINTS: a full deque drops its
\* leftmost item.
DequeAppend(d, v) ==
  IF Len(d) >= MAX_POINTS THEN Append(Tail(d), v) ELSE Append(d, v)

Init ==
  /\ data_pred = <<>>
  /\ data_true = <<>>
  /\ data_x = <<>>
  /\ running = TRUE
  /\ prod_pc = "idle"
  /\ ser = "unbound"
  /\ counter = 0
  /\ line = <<>>
  /\ stdout = <<>>
  /\ main_pc = "start"
  /\ tick_pc = "idle"
  /\ t_len = NoLen
  /\ t_last = NoFloat
  /\ line_pred = [x |-> <<>>, y |-> <<>>]
  /\ line_true = [x |-> <<>>, y |-> <<>>]
  /\ xlim = <<0, 1>>
  /\ error_text = NoText
  /\ lines_read = <<>>
  /\ log = <<>>
  /\ tick_late = FALSE
  /\ appended_at_stop = 0

\* ------------------------------------------------------------- read_serial
\* serial.Serial(...) succeeds; print; counter = 0
Open ==
  /\ prod_pc = "open"
  /\ ser' = "open"
  /\ stdout' = Append(stdout, "Connected")
  /\ counter' = 0
  /\ prod_pc' = "loop"
  /\ UNCHANGED <<buffers, running, line, lines_read, log, main_vars, tick_vars>>

\* serial.Serial(...) raises SerialException: ser stays unbound
OpenFail ==
  /\ prod_pc = "open"
  /\ prod_pc' = "except"
  /\ UNCHANGED <<buffers, running, ser, counter, line, stdout, lines_read, log,
                 main_vars, tick_vars>>

\* Mutant: while True:
LoopTestForever ==
  /\ prod_pc = "loop"
  /\ prod_pc' = "read"
  /\ UNCHANGED <<buffers, running, ser, counter, line, stdout, lines_read, log,
                 main_vars, tick_vars>>

\* while running:
LoopTest ==
  /\ prod_pc = "loop"
  /\ prod_pc' = IF running THEN "read" ELSE "finally"
  /\ UNCHANGED <<buffers, running, ser, counter, line, stdout, lines_read, log,
                 main_vars, tick_vars>>

\* line = ser.readline().decode('utf-8', errors='ignore').strip(), the port
\* delivering the raw line; a matching line is delivered only while fewer
\* than MaxAppends samples have been appended.
Readline(raw) ==
  /\ prod_pc = "read"
  /\ Parsed[LineText[raw]].match => counter < MaxAppends
  /\ line' = LineText[raw]
  /\ prod_pc' = "match"
  /\ UNCHANGED <<buffers, running, ser, counter, stdout, log, main_vars, tick_vars>>

\* ser.readline() returns some line
ReadLine ==
  /\ \E raw \in Lines : Readline(raw)
  /\ UNCHANGED lines_read

\* ser.readline() returns some line, and the history of lines is kept
ReadLineRec ==
  /\ Len(lines_read) < MaxReads
  /\ \E raw \in Lines :
       /\ Readline(raw)
       /\ lines_read' = Append(lines_read, raw)

\* ser.readline() returns b'' after the read timeout
ReadTimeout ==
  /\ prod_pc = "read"
  /\ line' = <<>>
  /\ prod_pc' = "match"
  /\ UNCHANGED <<buffers, running, ser, counter, stdout, lines_read, log,
                 main_vars, tick_vars>>

\* ser.readline() raises SerialException
ReadFail ==
  /\ prod_pc = "read"
  /\ prod_pc' = "except"
  /\ UNCHANGED <<buffers, running, ser, counter, line, stdout, lines_read, log,
                 main_vars, tick_vars>>

\* Mutant: a line that does not match ends the loop.
MatchOrBreak ==
  /\ prod_pc = "match"
  /\ prod_pc' = IF Parsed[line].match THEN "app_pred" ELSE "finally"
  /\ UNCHANGED <<buffers, running, ser, counter, line, stdout, lines_read, log,
                 main_vars, tick_vars>>

\* Mutant: the counter is incremented for every line read, matching or not.
MatchCountsEveryLine ==
  /\ prod_pc = "match"
  /\ prod_pc' = IF Parsed[line].match THEN "app_pred" ELSE "loop"
  /\ counter' = IF Parsed[line].match THEN counter ELSE counter + 1
  /\ UNCHANGED <<buffers, running, ser, line, stdout, lines_read, log, main_vars,
                 tick_vars>>

\* match = re.search(...); if match: pred_val = ...; true_val = ...
Match ==
  /\ prod_pc = "match"
  /\ prod_pc' = IF Parsed[line].match THEN "app_pred" ELSE "loop"
  /\ UNCHANGED <<buffers, running, ser, counter, line, stdout, lines_read, log,
                 main_vars, tick_vars>>

\* Mutant: the flag is tested again between the appends of one sample.
AppendPredCancellable ==
  /\ prod_pc = "app_pred"
  /\ data_pred' = DequeAppend(data_pred, Parsed[line].pred_val)
  /\ prod_pc' = IF running THEN "app_true" ELSE "finally"
  /\ UNCHANGED <<data_true, data_x, running, ser, counter, line, stdout,
                 lines_read, log, main_vars, tick_vars>>

\* data_pred.append(pred_val)
AppendPred ==
  /\ prod_pc = "app_pred"
  /\ data_pred' = DequeAppend(data_pred, Parsed[line].pred_val)
  /\ prod_pc' = "app_true"
  /\ UNCHANGED <<data_true, data_x, running, ser, counter, line, stdout,
                 lines_read, log, main_vars, tick_vars>>

\* Mutant: the true value is not appended.
AppendTrueSkipped ==
  /\ prod_pc = "app_true"
  /\ prod_pc' = "app_x"
  /\ UNCHANGED <<buffers, running, ser, counter, line, stdout, lines_read, log,
                 main_vars, tick_vars>>

\* data_true.append(true_val)
AppendTrue ==
  /\ prod_pc = "app_true"
  /\ data_true' = DequeAppend(data_true, Parsed[line].true_val)
  /\ prod_pc' = "app_x"
  /\ UNCHANGED <<data_pred, data_x, running, ser, counter, line, stdout,
                 lines_read, log, main_vars, tick_vars>>

\* data_x.append(counter): the sample is now in all three deques
AppendX ==
  /\ prod_pc = "app_x"
  /\ data_x' = DequeAppend(data_x, counter)
  /\ log' = Append(log, [sequence |-> counter, predicted |-> Parsed[line].pred_val,
                         actual |-> Parsed[line].true_val])
  /\ prod_pc' = "inc"
  /\ UNCHANGED <<data_pred, data_true, running, ser, counter, line, stdout,
                 lines_read, main_vars, tick_vars>>

\* Mutant: after an append the next line is read without testing the flag.
IncCounterSkipsTest ==
  /\ prod_pc = "inc"
  /\ counter' = counter + 1
  /\ prod_pc' = "read"
  /\ UNCHANGED <<buffers, running, ser, line, stdout, lines_read, log, main_vars,
                 tick_vars>>

\* counter += 1
IncCounter ==
  /\ prod_pc = "inc"
  /\ counter' = counter + 1
  /\ prod_pc' = "loop"
  /\ UNCHANGED <<buffers, running, ser, line, stdout, lines_read, log, main_vars,
                 tick_vars>>

\* Mutant: the loop is entered again after the error.
ExceptRetry ==
  /\ prod_pc = "except"
  /\ stdout' = Append(stdout, "Serial Error")
  /\ prod_pc' = "loop"
  /\ UNCHANGED <<buffers, running, ser, counter, line, lines_read, log, main_vars,
                 tick_vars>>

\* Mutant: the handler empties the deques.
ExceptClears ==
  /\ prod_pc = "except"
  /\ stdout' = Append(stdout, "Serial Error")
  /\ prod_pc' = "finally"
  /\ data_pred' = <<>>
  /\ data_true' = <<>>
  /\ data_x' = <<>>
  /\ UNCHANGED <<running, ser, counter, line, lines_read, log, main_vars, tick_vars>>

\* except serial.SerialException as e: print(...)
Except ==
  /\ prod_pc = "except"
  /\ stdout' = Append(stdout, "Serial Error")
  /\ prod_pc' = "finally"
  /\ UNCHANGED <<buffers, running, ser, counter, line, lines_read, log, main_vars,
                 tick_vars>>

\* Mutant: the port is not closed.
FinallyNoClose ==
  /\ prod_pc = "finally"
  /\ prod_pc' = "fin_run"
  /\ UNCHANGED <<buffers, running, ser, counter, line, stdout, lines_read, log,
                 main_vars, tick_vars>>

\* finally: if 'ser' in locals() and ser.is_open: ser.close()
Finally ==
  /\ prod_pc = "finally"
  /\ ser' = IF ser = "open" THEN "closed" ELSE ser
  /\ prod_pc' = "fin_run"
  /\ UNCHANGED <<buffers, running, counter, line, stdout, lines_read, log,
                 main_vars, tick_vars>>

\* Mutant: the finally block leaves running as it is.
FinallyKeepsRunning ==
  /\ prod_pc = "fin_run"
  /\ prod_pc' = "return"
  /\ UNCHANGED <<buffers, running, ser, counter, line, stdout, lines_read, log,
                 main_vars, tick_vars>>

\* finally: running = False
FinallyRunning ==
  /\ prod_pc = "fin_run"
  /\ running' = FALSE
  /\ prod_pc' = "return"
  /\ UNCHANGED <<buffers, ser, counter, line, stdout, lines_read, log, main_vars,
                 tick_vars>>

\* read_serial returns and the thread ends: from here on join() returns
ThreadEnd ==
  /\ prod_pc = "return"
  /\ prod_pc' = "done"
  /\ UNCHANGED <<buffers, running, ser, counter, line, stdout, lines_read, log,
                 main_vars, tick_vars>>

ProducerSteps ==
  \/ Open
  \/ OpenFail
  \/ LoopTest
  \/ ReadTimeout
  \/ ReadFail
  \/ Match
  \/ AppendPred
  \/ AppendTrue
  \/ AppendX
  \/ IncCounter
  \/ Except
  \/ Finally
  \/ FinallyRunning
  \/ ThreadEnd

Producer ==
  \/ ProducerSteps
  \/ ReadLine

\* ------------------------------------------------------------- update
\* The timer fires; if data_x:
TickTest ==
  /\ main_pc = "show"
  /\ tick_pc = "idle"
  /\ tick_pc' = IF data_x # <<>> THEN "pred_x" ELSE "idle"
  /\ tick_late' = (prod_pc = "done")
  /\ UNCHANGED <<buffers, running, prod_vars, main_vars, t_len, t_last, line_pred,
                 line_true, xlim, error_text>>

\* range(len(data_x)), the first argument of line_pred.set_data
TickPredX ==
  /\ tick_pc = "pred_x"
  /\ t_len' = Len(data_x)
  /\ tick_pc' = "pred_y"
  /\ UNCHANGED <<buffers, running, prod_vars, main_vars, tick_late, t_last, line_pred,
                 line_true, xlim, error_text>>

\* Mutant: the counters of data_x are what is plotted along x.
TickPredYSequence ==
  /\ tick_pc = "pred_y"
  /\ line_pred' = [x |-> data_x, y |-> data_pred]
  /\ t_len' = NoLen
  /\ tick_pc' = "true_x"
  /\ UNCHANGED <<buffers, running, prod_vars, main_vars, tick_late, t_last, line_true, xlim,
                 error_text>>

\* line_pred.set_data(range(...), data_pred): the deque is copied
TickPredY ==
  /\ tick_pc = "pred_y"
  /\ line_pred' = [x |-> Range(t_len), y |-> data_pred]
  /\ t_len' = NoLen
  /\ tick_pc' = "true_x"
  /\ UNCHANGED <<buffers, running, prod_vars, main_vars, tick_late, t_last, line_true, xlim,
                 error_text>>

\* range(len(data_x)), the first argument of line_true.set_data
TickTrueX ==
  /\ tick_pc = "true_x"
  /\ t_len' = Len(data_x)
  /\ tick_pc' = "true_y"
  /\ UNCHANGED <<buffers, running, prod_vars, main_vars, tick_late, t_last, line_pred,
                 line_true, xlim, error_text>>

\* line_true.set_data(range(...), data_true): the deque is copied
TickTrueY ==
  /\ tick_pc = "true_y"
  /\ line_true' = [x |-> Range(t_len), y |-> data_true]
  /\ t_len' = NoLen
  /\ tick_pc' = "xlim"
  /\ UNCHANGED <<buffers, running, prod_vars, main_vars, tick_late, t_last, line_pred, xlim,
                 error_text>>

\* Mutant: update drops the oldest counter of a full window.
TickXlimTrims ==
  /\ tick_pc = "xlim"
  /\ xlim' = <<0, Len(data_x)>>
  /\ data_x' = IF Len(data_x) >= MAX_POINTS THEN Tail(data_x) ELSE data_x
  /\ tick_pc' = "err_pred"
  /\ UNCHANGED <<data_pred, data_true, running, prod_vars, main_vars, tick_late, t_len,
                 t_last, line_pred, line_true, error_text>>

\* ax.set_xlim(0, len(data_x))
TickXlim ==
  /\ tick_pc = "xlim"
  /\ xlim' = <<0, Len(data_x)>>
  /\ tick_pc' = "err_pred"
  /\ UNCHANGED <<buffers, running, prod_vars, main_vars, tick_late, t_len, t_last, line_pred,
                 line_true, error_text>>

\* data_pred[-1]: IndexError on an empty deque
TickErrPred ==
  /\ tick_pc = "err_pred"
  /\ IF data_pred # <<>>
       THEN /\ t_last' = data_pred[Len(data_pred)]
            /\ tick_pc' = "err_true"
       ELSE /\ t_last' = t_last
            /\ tick_pc' = "raised"
  /\ UNCHANGED <<buffers, running, prod_vars, main_vars, tick_late, t_len, line_pred,
                 line_true, xlim, error_text>>

\* current_error = abs(... - data_true[-1]); error_text.set_text(...); return
TickErrTrue ==
  /\ tick_pc = "err_true"
  /\ IF data_true # <<>>
       THEN /\ error_text' = Fmt4(FloatAbs(FloatSub(t_last, data_true[Len(data_true)])))
            /\ tick_pc' = "idle"
       ELSE /\ error_text' = error_text
            /\ tick_pc' = "raised"
  /\ t_last' = NoFloat
  /\ UNCHANGED <<buffers, running, prod_vars, main_vars, tick_late, t_len, line_pred,
                 line_true, xlim>>

update ==
  \/ TickTest
  \/ TickPredX
  \/ TickPredY
  \/ TickTrueX
  \/ TickTrueY
  \/ TickXlim
  \/ TickErrPred
  \/ TickErrTrue

\* ------------------------------------------------------------- __main__
\* serial_thread.start(); FuncAnimation(...); plt.show()
Start ==
  /\ main_pc = "start"
  /\ main_pc' = "show"
  /\ prod_pc' = "open"
  /\ UNCHANGED <<buffers, running, ser, counter, line, stdout, lines_read, log,
                 tick_vars, appended_at_stop>>

\* the plot window is closed: plt.show() returns
CloseWindow ==
  /\ main_pc = "show"
  /\ tick_pc = "idle"
  /\ main_pc' = "stop"
  /\ UNCHANGED <<buffers, running, prod_vars, tick_vars, appended_at_stop>>

\* Mutant: the flag is flipped instead of cleared.
StopRunningToggles ==
  /\ main_pc = "stop"
  /\ running' = ~running
  /\ main_pc' = "join"
  /\ appended_at_stop' = Len(log)
  /\ UNCHANGED <<buffers, prod_vars, tick_vars>>

\* running = False
StopRunning ==
  /\ main_pc = "stop"
  /\ running' = FALSE
  /\ main_pc' = "join"
  /\ appended_at_stop' = Len(log)
  /\ UNCHANGED <<buffers, prod_vars, tick_vars>>

\* Mutant: the join returns without waiting for the thread.
JoinNoWait ==
  /\ main_pc = "join"
  /\ main_pc' = "exit"
  /\ UNCHANGED <<buffers, running, prod_vars, tick_vars, appended_at_stop>>

\* serial_thread.join() returns once the thread has ended
Join ==
  /\ main_pc = "join"
  /\ prod_pc = "done"
  /\ main_pc' = "exit"
  /\ UNCHANGED <<buffers, running, prod_vars, tick_vars, appended_at_stop>>

Main ==
  \/ Start
  \/ CloseWindow
  \/ StopRunning
  \/ Join

Next ==
  \/ Producer
  \/ update
  \/ Main

Spec == Init /\ [][Next]_vars

\* read_serial and __main__ alone, with the history of the lines read: update
\* assigns none of the variables these two read.
NextRec ==
  \/ ProducerSteps
  \/ ReadLineRec
  \/ Main

SpecRec == Init /\ [][NextRec]_vars

\* ------------------------------------------------------------- properties
Min(a, b) == IF a < b THEN a ELSE b

\* The samples a window of MAX_POINTS retains of the samples appended so far.
Window == SubSeq(log, Len(log) - Min(Len(log), MAX_POINTS) + 1, Len(log))

\* Entry i of the three channels, read as one sample.
Entry(i) == [sequence |-> data_x[i], predicted |-> data_pred[i], actual |-> data_true[i]]

\* The three channels hold whole samples only, and exactly the retained ones.
WholeSamples ==
  /\ Len(data_pred) = Len(data_x)
  /\ Len(data_true) = Len(data_x)
  /\ Len(data_x) = Len(Window)
  /\ \A i \in 1..Len(data_x) : Entry(i) = Window[i]

\* update is about to read shared state.
TickReads ==
  tick_pc \in {"pred_x", "pred_y", "true_x", "true_y", "xlim", "err_pred", "err_true"}

\* C1: whenever a running call of update is about to read the deques, the
\* three deques have the same length, entry i of each belongs to the same
\* sample, and every appended sample that was not evicted is there.
C1_NoTornRead == TickReads => WholeSamples

\* C2: no deque ever holds more than MAX_POINTS items, and between appends
\* the deques hold exactly the MAX_POINTS most recently appended samples (all
\* of them while fewer were appended), oldest first, in ascending sequence
\* order.
C2_SlidingWindow ==
  /\ Len(data_pred) <= MAX_POINTS
  /\ Len(data_true) <= MAX_POINTS
  /\ Len(data_x) <= MAX_POINTS
  /\ prod_pc \notin {"app_true", "app_x"} =>
       /\ WholeSamples
       /\ Len(data_x) = Min(Len(log), MAX_POINTS)
       /\ \A i \in 1..Len(data_x) : data_x[i] = Len(log) - Len(data_x) + i - 1

\* C2 witness: one sample more than the window holds was appended, and the
\* oldest one is gone.
C2_Witness ==
  /\ prod_pc = "loop"
  /\ Len(log) = MAX_POINTS + 1
  /\ data_x[1] = 1
  /\ Len(data_x) = MAX_POINTS

\* C3: the samples appended carry the sequence indices 0, 1, 2, ... in the
\* order of their appends, whatever lines were read in between: the counter
\* is the number of samples appended, and the indices in data_x are
\* consecutive.
C3_Sequence ==
  /\ \A k \in 1..Len(log) : log[k].sequence = k - 1
  /\ counter = IF prod_pc = "inc" THEN Len(log) - 1 ELSE Len(log)
  /\ \A i \in 1..(Len(data_x) - 1) : data_x[i + 1] = data_x[i] + 1

\* C3 witness: non-matching lines before and between two matching lines.
C3_Witness ==
  /\ lines_read = <<LineGarbage, LineA, LineD, LineB>>
  /\ prod_pc = "loop"
  /\ data_x = <<0, 1>>

\* C4: once running = False and serial_thread.join() have both been executed,
\* no step changes any of the three deques.
C4_NoAppendAfterJoin == [][main_pc = "exit" => buffers' = buffers]_vars

\* C4 witness: the join has returned with samples in the deques.
C4_Witness == main_pc = "exit" /\ data_x # <<>>

\* The samples the loop appends for the lines read, in order: one per
\* matching line, numbered from 0.
RECURSIVE Samples(_)
Samples(raws) ==
  IF raws = <<>> THEN <<>>
  ELSE LET front == Samples(SubSeq(raws, 1, Len(raws) - 1))
           text  == Strip(Decode(raws[Len(raws)]))
       IN  IF Matches(text)
             THEN Append(front, [sequence |-> Len(front), predicted |-> PredVal(text),
                                 actual |-> TrueVal(text)])
             ELSE front

\* The lines whose loop iteration is over: all lines read, but for the one
\* the loop is still working on.
Handled ==
  IF prod_pc \in {"match", "app_pred", "app_true", "app_x"} /\ line # <<>>
    THEN SubSeq(lines_read, 1, Len(lines_read) - 1)
    ELSE lines_read

\* C5: the samples appended are, in the order read, one per matching line
\* read and none per other line, each with the two values of its line; after
\* "Pred:0.50,True:0.52", "garbage", "Pred:-0.10,True:-0.08" they are exactly
\* (0, 0.5, 0.52) and (1, -0.1, -0.08).
C5_OnePerMatchingLine ==
  /\ log = Samples(Handled)
  /\ (lines_read = <<LineA, LineGarbage, LineB>> /\ prod_pc = "loop") =>
       log = << [sequence |-> 0, predicted |-> <<5, 1>>, actual |-> <<52, 2>>],
                [sequence |-> 1, predicted |-> <<-1, 1>>, actual |-> <<-8, 2>>] >>

\* C5 witness: the three lines of the example have been read and handled.
C5_Witness ==
  /\ lines_read = <<LineA, LineGarbage, LineB>>
  /\ prod_pc = "loop"
  /\ data_pred = << <<5, 1>>, <<-1, 1>> >>
  /\ data_true = << <<52, 2>>, <<-8, 2>> >>

\* A SerialException has been raised in read_serial.
Failed ==
  \/ prod_pc = "except"
  \/ \E k \in 1..Len(stdout) : stdout[k] = "Serial Error"

\* C6: when the thread running read_serial has ended, the port is not open:
\* it was closed, or it was never opened.
C6_PortClosed == prod_pc = "done" => ser # "open"

\* C6 witness: the loop ended by a read error, on a port that had been
\* opened, and by cancellation.
C6_Witness == prod_pc = "done" /\ ser = "closed" /\ Failed /\ log # <<>>

\* The scheduler keeps running the producer thread and each of its reads
\* returns (the port is opened with timeout=1), and the main thread goes on
\* once the window is closed.
FairSpec ==
  /\ Spec
  /\ WF_vars(Producer)
  /\ WF_vars(StopRunning)
  /\ WF_vars(Join)

\* C7: once the window is closed, running = False is executed, the thread
\* running read_serial ends and the join returns.
C7_ShutdownTerminates == (main_pc = "stop") ~> (main_pc = "exit" /\ prod_pc = "done")

\* C7 witness: the join has returned after a cancellation that found the
\* loop running (no read error).
C7_Witness == main_pc = "exit" /\ ~Failed /\ ser = "closed"

\* C8: a line that does not match leaves the deques, the counter, the flag
\* and the output as they were and sends the loop back to its test, which,
\* running being true, goes on to the next read.
C8_MismatchSkipped ==
  [][ /\ (prod_pc = "match" /\ ~Matches(line) /\ prod_pc' # "match") =>
           /\ prod_pc' = "loop"
           /\ buffers' = buffers
           /\ counter' = counter
           /\ running' = running
           /\ stdout' = stdout
           /\ log' = log
      /\ (prod_pc = "loop" /\ running /\ prod_pc' # "loop") => prod_pc' = "read"
    ]_vars

\* C8 witness: after a sample, a non-matching line was skipped and the loop
\* is reading again.
C8_Witness ==
  /\ prod_pc = "read"
  /\ line = LineGarbage
  /\ log # <<>>
  /\ running

\* The thread running read_serial has ended after a SerialException.
FailedAndEnded == prod_pc = "done" /\ Failed

\* The module globals, which are what the main thread can read of the
\* producer, and what they are when the loop is ended by running = False with
\* the same samples appended.
Globals == [running |-> running, pred |-> data_pred, true |-> data_true, x |-> data_x]

GlobalsWhenCancelled == [running |-> FALSE, pred |-> data_pred, true |-> data_true, x |-> data_x]

ShowsBuffers ==
  IF data_x = <<>>
    THEN /\ line_pred = [x |-> <<>>, y |-> <<>>]
         /\ line_true = [x |-> <<>>, y |-> <<>>]
         /\ error_text = NoText
    ELSE /\ line_pred = [x |-> Range(Len(data_x)), y |-> data_pred]
         /\ line_true = [x |-> Range(Len(data_x)), y |-> data_true]
         /\ xlim = <<0, Len(data_x)>>
         /\ error_text = Fmt4(FloatAbs(FloatSub(data_pred[Len(data_pred)],
                                                data_true[Len(data_true)])))

\* C10: from the SerialException on no step changes the deques; once the
\* thread has ended after it, the deques hold whole samples, no call of
\* update raises, and every call of update begun since has left in the
\* artists exactly the content of the deques.
C10_KeepsShowing ==
  /\ [][Failed => buffers' = buffers]_vars
  /\ [](FailedAndEnded =>
          /\ WholeSamples
          /\ tick_pc # "raised"
          /\ (tick_late /\ tick_pc = "idle") => ShowsBuffers)

\* C10 witness: a call of update begun after the failure has returned, with
\* samples to show.
C10_Witness ==
  /\ FailedAndEnded
  /\ tick_late
  /\ tick_pc = "idle"
  /\ Len(data_x) = MAX_POINTS
  /\ line_pred.y = data_pred

\* The lifecycle the program is in, read off the running flag and the thread:
\* the thread is not started yet; the flag is True; the flag is False and the
\* thread has not ended; the flag is False and the thread has ended.
LifecycleState ==
  IF main_pc = "start" THEN "NotStarted"
  ELSE IF running THEN "Running"
  ELSE IF prod_pc # "done" THEN "StopRequested"
  ELSE "Stopped"

LifecycleRank ==
  CASE LifecycleState = "NotStarted" -> 0
    [] LifecycleState = "Running" -> 1
    [] LifecycleState = "StopRequested" -> 2
    [] LifecycleState = "Stopped" -> 3

\* C11: every step leaves the lifecycle where it is or moves it to the next
\* of NotStarted, Running, StopRequested, Stopped, also when a
\* SerialException ends the thread; and once it is Stopped the thread stays
\* ended, the flag stays False and nothing is appended.
C11_LifecycleOrder ==
  [][ /\ LifecycleRank' \in {LifecycleRank, LifecycleRank + 1}
      /\ LifecycleState = "Stopped" =>
           /\ LifecycleState' = "Stopped"
           /\ prod_pc' = "done"
           /\ buffers' = buffers
           /\ log' = log
    ]_vars

\* C11 witness: a SerialException ended the thread after samples were
\* appended, and the lifecycle is Stopped while the window is still open.
C11_Witness ==
  /\ LifecycleState = "Stopped"
  /\ Failed
  /\ log # <<>>
  /\ main_pc = "show"

\* C12: when the thread running read_serial has already ended (which, before
\* the main thread clears the flag, only a SerialException brings about), the
\* two steps of the shutdown are both able to run at once, so neither blocks,
\* and neither changes the deques, the flag or the lifecycle.
C12_StopAfterEndIsNoOp ==
  /\ [][ (prod_pc = "done" /\ main_pc \in {"stop", "join"} /\ main_pc' # main_pc) =>
          /\ buffers' = buffers
          /\ running' = running
          /\ LifecycleState' = LifecycleState
          /\ LifecycleState' = "Stopped"
      ]_vars
  /\ [](prod_pc = "done" /\ main_pc = "stop" => Failed /\ ENABLED StopRunning)
  /\ [](prod_pc = "done" /\ main_pc = "join" => ENABLED Join)

\* C12 witness: the shutdown has run to its end on a thread that a
\* SerialException had ended while the window was still open (a call of
\* update began after the thread's end).
C12_Witness ==
  /\ main_pc = "exit"
  /\ FailedAndEnded
  /\ tick_late
  /\ appended_at_stop = Len(log)
  /\ log # <<>>

\* read_serial has left its loop, or has ended, because running was False.
Cancelled == prod_pc \in {"finally", "fin_run", "return", "done"} /\ ~Failed

\* C13: the loop is left without a SerialException only at the test of
\* while running, reached before each readline and after each counter += 1,
\* and only when the flag is False; so whenever read_serial has left the loop
\* that way the three deques hold whole samples (same length, entry i of each
\* from the same sample) and counter is the number of samples appended.
C13_CancelBetweenSamples ==
  /\ [][ (prod_pc' = "finally" /\ prod_pc # "finally" /\ ~Failed') =>
          /\ prod_pc = "loop"
          /\ ~running
          /\ buffers' = buffers
      ]_vars
  /\ [](Cancelled => WholeSamples /\ counter = Len(log))

\* C13 witness: the flag was cleared while a sample was being read or
\* appended, that sample was appended whole, and the thread has ended; older
\* samples had been evicted.
C13_Witness ==
  /\ Cancelled
  /\ prod_pc = "done"
  /\ Len(log) = appended_at_stop + 1
  /\ Len(log) > MAX_POINTS
  /\ counter = Len(log)

\* C14: a step of update leaves the three deques, the counter of read_serial
\* and the running flag as they are; and every step that changes a deque is
\* one of the three appends of read_serial, which leaves update where it is.
C14_TickReadOnly ==
  [][ /\ (update \/ tick_vars' # tick_vars) =>
           /\ buffers' = buffers
           /\ counter' = counter
           /\ running' = running
      /\ buffers' # buffers =>
           /\ prod_pc \in {"app_pred", "app_true", "app_x"}
           /\ prod_pc' # prod_pc
           /\ tick_vars' = tick_vars
    ]_vars

\* C14 witness: a call of update has gone through all its reads of a full
\* window and returned, and the deques still hold the whole window.
C14_Witness ==
  /\ tick_pc = "idle"
  /\ error_text # NoText
  /\ Len(line_pred.y) = MAX_POINTS
  /\ Len(data_x) = MAX_POINTS
  /\ WholeSamples
  /\ running

\* The error text of one sample.
ErrorOf(s) == Fmt4(FloatAbs(FloatSub(s.predicted, s.actual)))

\* The error texts of the samples appended so far, the one whose appends are
\* under way included.
SampleErrors ==
  {ErrorOf(log[k]) : k \in 1..Len(log)} \cup
  (IF prod_pc \in {"app_true", "app_x"}
     THEN {ErrorOf([predicted |-> Parsed[line].pred_val, actual |-> Parsed[line].true_val])}
     ELSE {})

\* C15: the error text update has set is the absolute difference of the
\* predicted and the true value of one single sample.
C15_ErrorOfOneSample == error_text # NoText => error_text \in SampleErrors

\* A call of update that began after the thread running read_serial had
\* ended has returned, and there were samples to show.
ShownAtRest == tick_late /\ tick_pc = "idle" /\ data_x # <<>>

\* C16 as stated: the x values of the two lines are the counters of the
\* retained samples (taken where no append can fall among the reads of
\* update).
C16_XIsSequence == ShownAtRest => line_pred.x = data_x /\ line_true.x = data_x

\* How many samples the window has dropped.
Evicted == Len(log) - Len(Window)

\* C16 as amended: the x values of each line are the positions 0 .. n-1, n
\* being a length data_x has had; they are the counters of the samples at
\* those positions as long as nothing was evicted, and after that the sample
\* plotted at position i has counter i plus the number of samples evicted.
C16_XIsPosition ==
  /\ \A a \in {line_pred, line_true} :
       /\ a.x = Range(Len(a.x))
       /\ Len(a.x) <= Len(data_x)
       /\ Evicted = 0 => \A i \in 1..Len(a.x) : a.x[i] = data_x[i]
  /\ ShownAtRest =>
       \A a \in {line_pred, line_true} :
         /\ Len(a.x) = Len(data_x)
         /\ \A i \in 1..Len(data_x) : data_x[i] = a.x[i] + Evicted

\* C16 witness: a call of update has shown a full window from which older
\* samples were evicted: the first x is 0, the first counter is not.
C16_Witness ==
  /\ ShownAtRest
  /\ Evicted > 0
  /\ line_pred.x = Range(MAX_POINTS)
  /\ line_true.x = Range(MAX_POINTS)
  /\ data_x[1] = Evicted

\* The main thread has assigned running = False.
StopAssigned == main_pc \in {"join", "exit"}

\* C17: from the assignment running = False of the main thread on, through
\* the return of join() and after, read_serial completes at most one more
\* sample, and each deque is appended to at most once more.
C17_AtMostOneMore ==
  /\ [](StopAssigned => Len(log) <= appended_at_stop + 1)
  /\ [][ (StopAssigned /\ Len(log) = appended_at_stop + 1) => buffers' = buffers ]_vars

\* C17 witness: join() has returned, and exactly one sample was completed
\* after the flag was cleared.
C17_Witness ==
  /\ main_pc = "exit"
  /\ ~Failed
  /\ Len(log) = appended_at_stop + 1
  /\ WholeSamples

\* C18: in every state, those between the three appends of a sample
\* included, len(data_x) <= len(data_true) <= len(data_pred) <= MAX_POINTS
\* and len(data_pred) - len(data_x) <= 1; a call of update that found data_x
\* non-empty finds data_pred and data_true non-empty and raises no
\* IndexError.
C18_LengthOrder ==
  /\ Len(data_x) <= Len(data_true)
  /\ Len(data_true) <= Len(data_pred)
  /\ Len(data_pred) <= MAX_POINTS
  /\ Len(data_pred) - Len(data_x) <= 1
  /\ TickReads => data_pred # <<>> /\ data_true # <<>>
  /\ tick_pc # "raised"

\* C18 witness: update reads data_true[-1] while read_serial is between the
\* appends of a sample, data_pred being one longer than data_true and data_x.
C18_Witness ==
  /\ tick_pc = "err_true"
  /\ prod_pc = "app_true"
  /\ Len(data_pred) = Len(data_x) + 1
  /\ Len(data_true) = Len(data_x)
  /\ data_x # <<>>

====
